---- MODULE Spec2Model ----
(***************************************************************************)
(* A model of server.js: an Express application that keeps a product       *)
(* catalogue in the module-level array `products` and serves it through    *)
(* GET/POST/PUT/DELETE routes behind an API-key check and a body           *)
(* validator.  One action models one HTTP request handled to completion    *)
(* (Node runs each handler synchronously, so requests never interleave).   *)
(*                                                                         *)
(* JavaScript strings are sequences of one-character strings, so that      *)
(* trim() and toLowerCase() are computed and not assumed.  A request body  *)
(* is req.body as bodyParser.json() delivers it: an object whose fields    *)
(* are JSON values or are missing.                                         *)
(***************************************************************************)
EXTENDS Integers, Sequences, FiniteSets, TLC

\* Largest number of successful create/update/delete requests in a run.
MaxMutations == 2

----------------------------------------------------------------------------
(* JavaScript values, tagged with what typeof yields. *)

Undefined == [t |-> "undefined", v |-> 0]
Null == [t |-> "object", v |-> 0]
Str(s) == [t |-> "string", v |-> s]
Num(n) == [t |-> "number", v |-> n]
Bool(b) == [t |-> "boolean", v |-> b]

TypeOf(x) == x.t

\* ToBoolean: what `!x` and `if (x)` test.
Truthy(x) ==
  CASE x.t = "undefined" -> FALSE
    [] x.t = "object" -> FALSE
    [] x.t = "string" -> x.v # <<>>
    [] x.t = "number" -> x.v # 0
    [] x.t = "boolean" -> x.v
    [] x.t = "function" -> TRUE

\* White space that String.prototype.trim removes (the characters used here).
WhiteSpace == {" ", "\t", "\n"}

RECURSIVE TrimStart(_)
TrimStart(s) ==
  IF s # <<>> /\ Head(s) \in WhiteSpace THEN TrimStart(Tail(s)) ELSE s

RECURSIVE TrimEnd(_)
TrimEnd(s) ==
  IF s # <<>> /\ s[Len(s)] \in WhiteSpace
  THEN TrimEnd(SubSeq(s, 1, Len(s) - 1))
  ELSE s

\* String.prototype.trim
Trim(s) == TrimEnd(TrimStart(s))

UpperLetters ==
  <<"A","B","C","D","E","F","G","H","I","J","K","L","M",
    "N","O","P","Q","R","S","T","U","V","W","X","Y","Z">>
LowerLetters ==
  <<"a","b","c","d","e","f","g","h","i","j","k","l","m",
    "n","o","p","q","r","s","t","u","v","w","x","y","z">>

\* The lower-case form of each upper-case letter.
LowerCaseOf ==
  [c \in {UpperLetters[i] : i \in 1..Len(UpperLetters)} |->
     LowerLetters[CHOOSE i \in 1..Len(UpperLetters) : UpperLetters[i] = c]]

ToLowerChar(c) == IF c \in DOMAIN LowerCaseOf THEN LowerCaseOf[c] ELSE c

\* String.prototype.toLowerCase
ToLowerCase(s) == [i \in 1..Len(s) |-> ToLowerChar(s[i])]

----------------------------------------------------------------------------
(* Product ids.  Lit(n) is the decimal string of n ("1" .. "5" in the seed, *)
(* or any such string a client puts in the URL); Uuid(k) is the k-th value  *)
(* uuidv4() has returned, a fresh version-4 UUID string.                    *)

Lit(n) == [kind |-> "lit", n |-> n]
Uuid(k) == [kind |-> "uuid", n |-> k]

\* A generator that repeats itself: every call returns the same string.
uuidv4Repeating(count) == Uuid(1)

\* uuidv4(): the value returned by the call made after `count` earlier calls.
uuidv4(count) == Uuid(count + 1)

----------------------------------------------------------------------------
(* The seed of the in-memory database. *)

sLaptop == <<"L","a","p","t","o","p">>
sLaptopDesc == <<"H","i","g","h","-","p","e","r","f","o","r","m","a","n","c","e"," ","l","a","p","t","o","p"," ","w","i","t","h"," ","1","6","G","B"," ","R","A","M">>
sSmartphone == <<"S","m","a","r","t","p","h","o","n","e">>
sSmartphoneDesc == <<"L","a","t","e","s","t"," ","m","o","d","e","l"," ","w","i","t","h"," ","1","2","8","G","B"," ","s","t","o","r","a","g","e">>
sCoffeeMaker == <<"C","o","f","f","e","e"," ","M","a","k","e","r">>
sCoffeeMakerDesc == <<"P","r","o","g","r","a","m","m","a","b","l","e"," ","c","o","f","f","e","e"," ","m","a","k","e","r"," ","w","i","t","h"," ","t","i","m","e","r">>
sHeadphones == <<"W","i","r","e","l","e","s","s"," ","H","e","a","d","p","h","o","n","e","s">>
sHeadphonesDesc == <<"N","o","i","s","e","-","c","a","n","c","e","l","l","i","n","g"," ","w","i","r","e","l","e","s","s"," ","h","e","a","d","p","h","o","n","e","s">>
sDeskChair == <<"D","e","s","k"," ","C","h","a","i","r">>
sDeskChairDesc == <<"E","r","g","o","n","o","m","i","c"," ","o","f","f","i","c","e"," ","c","h","a","i","r"," ","w","i","t","h"," ","l","u","m","b","a","r"," ","s","u","p","p","o","r","t">>
sElectronics == <<"e","l","e","c","t","r","o","n","i","c","s">>
sKitchen == <<"k","i","t","c","h","e","n">>
sFurniture == <<"f","u","r","n","i","t","u","r","e">>

Product(id, name, description, price, category, inStock) ==
  [id |-> id, name |-> name, description |-> description, price |-> price,
   category |-> category, inStock |-> inStock]

\* A product's fields are JavaScript values; its id is an id as above.
SeedProducts ==
  << Product(Lit(1), Str(sLaptop), Str(sLaptopDesc), Num(1200),
             Str(sElectronics), Bool(TRUE)),
     Product(Lit(2), Str(sSmartphone), Str(sSmartphoneDesc), Num(800),
             Str(sElectronics), Bool(TRUE)),
     Product(Lit(3), Str(sCoffeeMaker), Str(sCoffeeMakerDesc), Num(50),
             Str(sKitchen), Bool(FALSE)),
     Product(Lit(4), Str(sHeadphones), Str(sHeadphonesDesc), Num(200),
             Str(sElectronics), Bool(TRUE)),
     Product(Lit(5), Str(sDeskChair), Str(sDeskChairDesc), Num(300),
             Str(sFurniture), Bool(TRUE)) >>

----------------------------------------------------------------------------
(* Errors and the error-handling middleware. *)

NoError == [name |-> "none", message |-> <<>>]
TypeError(message) == [name |-> "TypeError", message |-> message]
NotFoundError(message) == [name |-> "NotFoundError", message |-> message]
ValidationError(message) == [name |-> "ValidationError", message |-> message]
AuthenticationError(message) ==
  [name |-> "AuthenticationError", message |-> message]

Response(status, body) == [status |-> status, body |-> body]

ErrorBody(error, message, statusCode) ==
  [error |-> error, message |-> message, statusCode |-> statusCode]

errorHandler(err) ==
  CASE err.name = "NotFoundError" ->
         Response(404, ErrorBody("Not Found", err.message, 404))
    [] err.name = "ValidationError" ->
         Response(400, ErrorBody("Validation Error", err.message, 400))
    [] err.name = "AuthenticationError" ->
         Response(401, ErrorBody("Authentication Error", err.message, 401))
    [] OTHER ->
         Response(500, ErrorBody("Internal Server Error",
                                 <<"Something went wrong!">>, 500))

----------------------------------------------------------------------------
(* Requests. *)

sApiKey == <<"d","e","m","o","-","a","p","i","-","k","e","y","-","1","2","3">>
sWrongKey == <<"d","e","m","o">>

Body(name, description, price, category, inStock) ==
  [name |-> name, description |-> description, price |-> price,
   category |-> category, inStock |-> inStock]

NoBody == Body(Undefined, Undefined, Undefined, Undefined, Undefined)

NoQuery ==
  [category |-> Undefined, inStock |-> Undefined, page |-> Undefined,
   limit |-> Undefined]

\* req: method, matched route, params.id, headers["x-api-key"], body, query
Request(method, route, id, apiKey, body, query) ==
  [method |-> method, route |-> route, id |-> id, apiKey |-> apiKey,
   body |-> body, query |-> query]

\* An auth check that only asks for the header to be there.
authMiddlewarePresenceOnly(r) ==
  IF ~Truthy(r.apiKey)
  THEN AuthenticationError(
         <<"Invalid or missing API key. Please provide a valid x-api-key header.">>)
  ELSE NoError

\* authMiddleware: NoError stands for next() without an argument.
authMiddleware(r) ==
  IF ~Truthy(r.apiKey) \/ r.apiKey # Str(sApiKey)
  THEN AuthenticationError(
         <<"Invalid or missing API key. Please provide a valid x-api-key header.">>)
  ELSE NoError

\* `!x || typeof x !== "string" || x.trim().length === 0`
NotNonEmptyString(x) ==
  \/ ~Truthy(x)
  \/ TypeOf(x) # "string"
  \/ Len(Trim(x.v)) = 0

\* A validator that asks only for a number as the price, of either sign.
validateProductAnyPrice(r) ==
  LET b == r.body IN
  IF NotNonEmptyString(b.name)
  THEN ValidationError(<<"Name is required and must be a non-empty string">>)
  ELSE IF NotNonEmptyString(b.description)
  THEN ValidationError(
         <<"Description is required and must be a non-empty string">>)
  ELSE IF TypeOf(b.price) # "number"
  THEN ValidationError(<<"Price is required and must be a positive number">>)
  ELSE IF NotNonEmptyString(b.category)
  THEN ValidationError(
         <<"Category is required and must be a non-empty string">>)
  ELSE IF TypeOf(b.inStock) # "boolean"
  THEN ValidationError(<<"inStock is required and must be a boolean">>)
  ELSE NoError

validateProduct(r) ==
  LET b == r.body IN
  IF NotNonEmptyString(b.name)
  THEN ValidationError(<<"Name is required and must be a non-empty string">>)
  ELSE IF NotNonEmptyString(b.description)
  THEN ValidationError(
         <<"Description is required and must be a non-empty string">>)
  ELSE IF TypeOf(b.price) # "number" \/ b.price.v < 0
  THEN ValidationError(<<"Price is required and must be a positive number">>)
  ELSE IF NotNonEmptyString(b.category)
  THEN ValidationError(
         <<"Category is required and must be a non-empty string">>)
  ELSE IF TypeOf(b.inStock) # "boolean"
  THEN ValidationError(<<"inStock is required and must be a boolean">>)
  ELSE NoError

----------------------------------------------------------------------------
(* The store and the route handlers.  A handler yields the array after the *)
(* request, the number of uuidv4() calls made so far, and the response.    *)

\* products.findIndex((p) => p.id === id): 0 stands for -1, else 1-based.
FindIndex(store, id) ==
  IF \E i \in 1..Len(store) : store[i].id = id
  THEN CHOOSE i \in 1..Len(store) :
         /\ store[i].id = id
         /\ \A j \in 1..(i - 1) : store[j].id # id
  ELSE 0

\* splice(i + 1, 1) in 0-based terms: the element after the one found goes.
SpliceOffByOne(store, i) ==
  IF i < Len(store)
  THEN [j \in 1..(Len(store) - 1) |-> IF j < i + 1 THEN store[j] ELSE store[j + 1]]
  ELSE store

\* products.splice(i, 1) leaves the array without its i-th element.
Splice(store, i) ==
  [j \in 1..(Len(store) - 1) |-> IF j < i THEN store[j] ELSE store[j + 1]]

Outcome(store, count, res) == [products |-> store, uuidCount |-> count, res |-> res]

Failed(store, count, err) == Outcome(store, count, errorHandler(err))

ProductNotFound(id) == NotFoundError(<<"Product with ID ", id, " not found">>)

\* GET /api/products/:id
GetProductById(r, store, count) ==
  LET i == FindIndex(store, r.id) IN
  IF i = 0
  THEN Failed(store, count, ProductNotFound(r.id))
  ELSE Outcome(store, count, Response(200, store[i]))

\* x.trim(): a string's trim, and no function at all of any other value.
HasTrim(x) == TypeOf(x) = "string"
TrimValue(x) == Str(Trim(x.v))

\* What the try block of the POST and PUT handlers throws when a field it
\* trims is no string; the catch hands it to errorHandler.
TrimFailure(b) ==
  IF ~HasTrim(b.name) THEN TypeError(<<"name.trim is not a function">>)
  ELSE IF ~HasTrim(b.description)
  THEN TypeError(<<"description.trim is not a function">>)
  ELSE IF ~HasTrim(b.category)
  THEN TypeError(<<"category.trim is not a function">>)
  ELSE NoError

\* A create that stores the strings as submitted, without trim().
CreateProductUntrimmed(r, store, count) ==
  LET b == r.body
      newProduct == Product(uuidv4(count), b.name, b.description, b.price,
                            b.category, b.inStock)
  IN Outcome(Append(store, newProduct), count + 1,
             Response(201, [message |-> "Product created successfully",
                            product |-> newProduct]))

\* The handler of POST /api/products, after the middleware.
CreateProduct(r, store, count) ==
  LET b == r.body IN
  IF TrimFailure(b) # NoError
  THEN Failed(store, count + 1, TrimFailure(b))  \* id: uuidv4() came first
  ELSE LET newProduct == Product(uuidv4(count), TrimValue(b.name),
                                 TrimValue(b.description), b.price,
                                 TrimValue(b.category), b.inStock)
       IN Outcome(Append(store, newProduct), count + 1,
                  Response(201, [message |-> "Product created successfully",
                                 product |-> newProduct]))

\* An update that creates the product when the id is not there (an upsert).
UpdateProductUpsert(r, store, count) ==
  LET i == FindIndex(store, r.id)
      b == r.body
      fields == Product(r.id, TrimValue(b.name), TrimValue(b.description),
                        b.price, TrimValue(b.category), b.inStock)
  IN IF i = 0
     THEN Outcome(Append(store, fields), count,
                  Response(200, [message |-> "Product updated successfully",
                                 product |-> fields]))
     ELSE Outcome([store EXCEPT ![i] = fields], count,
                  Response(200, [message |-> "Product updated successfully",
                                 product |-> fields]))

\* An update that takes the product out and pushes the new version at the
\* end of the array.
UpdateProductMoveToEnd(r, store, count) ==
  LET i == FindIndex(store, r.id)
      b == r.body
  IN IF i = 0
     THEN Failed(store, count, ProductNotFound(r.id))
     ELSE LET updated == [store[i] EXCEPT
                            !.name = TrimValue(b.name),
                            !.description = TrimValue(b.description),
                            !.price = b.price,
                            !.category = TrimValue(b.category),
                            !.inStock = b.inStock]
          IN Outcome(Append(Splice(store, i), updated), count,
                     Response(200, [message |-> "Product updated successfully",
                                    product |-> updated]))

\* The handler of PUT /api/products/:id, after the middleware.
UpdateProduct(r, store, count) ==
  LET i == FindIndex(store, r.id)
      b == r.body
  IN IF i = 0
     THEN Failed(store, count, ProductNotFound(r.id))
     ELSE IF TrimFailure(b) # NoError
     THEN Failed(store, count, TrimFailure(b))
     ELSE LET updated == [store[i] EXCEPT
                            !.name = TrimValue(b.name),
                            !.description = TrimValue(b.description),
                            !.price = b.price,
                            !.category = TrimValue(b.category),
                            !.inStock = b.inStock]
              after == [store EXCEPT ![i] = updated]
          IN Outcome(after, count,
                     Response(200, [message |-> "Product updated successfully",
                                    product |-> after[i]]))

\* The handler of DELETE /api/products/:id, after the middleware.
DeleteProduct(r, store, count) ==
  LET i == FindIndex(store, r.id) IN
  IF i = 0
  THEN Failed(store, count, ProductNotFound(r.id))
  ELSE Outcome(Splice(store, i), count,
               Response(200, [message |-> "Product deleted successfully",
                              product |-> store[i]]))

\* app.post("/api/products", authMiddleware, validateProduct, handler)
PostRoute(r, store, count) ==
  IF authMiddleware(r) # NoError
  THEN Failed(store, count, authMiddleware(r))
  ELSE IF validateProduct(r) # NoError
  THEN Failed(store, count, validateProduct(r))
  ELSE CreateProduct(r, store, count)

\* The PUT route with its two middleware in the other order.
PutRouteValidatorFirst(r, store, count) ==
  IF validateProduct(r) # NoError
  THEN Failed(store, count, validateProduct(r))
  ELSE IF authMiddleware(r) # NoError
  THEN Failed(store, count, authMiddleware(r))
  ELSE UpdateProduct(r, store, count)

\* app.put("/api/products/:id", authMiddleware, validateProduct, handler)
PutRoute(r, store, count) ==
  IF authMiddleware(r) # NoError
  THEN Failed(store, count, authMiddleware(r))
  ELSE IF validateProduct(r) # NoError
  THEN Failed(store, count, validateProduct(r))
  ELSE UpdateProduct(r, store, count)

\* app.delete("/api/products/:id", authMiddleware, handler)
DeleteRoute(r, store, count) ==
  IF authMiddleware(r) # NoError
  THEN Failed(store, count, authMiddleware(r))
  ELSE DeleteProduct(r, store, count)

----------------------------------------------------------------------------
(* GET /api/products: filtering and pagination.  Array.prototype.filter is *)
(* SelectSeq.                                                              *)

Digits == <<"0","1","2","3","4","5","6","7","8","9">>

IsDigit(c) == \E i \in 1..Len(Digits) : Digits[i] = c

DigitValue(c) == (CHOOSE i \in 1..Len(Digits) : Digits[i] = c) - 1

\* The longest prefix of s made of digits.
RECURSIVE DigitPrefix(_)
DigitPrefix(s) ==
  IF s # <<>> /\ IsDigit(Head(s)) THEN <<Head(s)>> \o DigitPrefix(Tail(s)) ELSE <<>>

RECURSIVE DecimalValue(_)
DecimalValue(ds) ==
  IF ds = <<>> THEN 0
  ELSE 10 * DecimalValue(SubSeq(ds, 1, Len(ds) - 1)) + DigitValue(ds[Len(ds)])

NaN == [nan |-> TRUE, n |-> 0]
Number(n) == [nan |-> FALSE, n |-> n]

\* parseInt(x) in radix 10: undefined and strings without a leading integer
\* give NaN; white space is skipped, a sign is read, trailing text is dropped.
ParseInt(x) ==
  IF TypeOf(x) # "string" THEN NaN
  ELSE LET s == TrimStart(x.v)
           neg == s # <<>> /\ Head(s) = "-"
           signed == s # <<>> /\ Head(s) \in {"-", "+"}
           ds == DigitPrefix(IF signed THEN Tail(s) ELSE s)
       IN IF ds = <<>> THEN NaN
          ELSE Number(IF neg THEN 0 - DecimalValue(ds) ELSE DecimalValue(ds))

\* `parseInt(x) || dflt`: NaN and 0 are falsy.
ParseIntOr(x, dflt) ==
  LET p == ParseInt(x) IN IF p.nan \/ p.n = 0 THEN dflt ELSE p.n

\* Array.prototype.slice(start, end), with its handling of negative and
\* out-of-range indices (indices are 0-based, end is exclusive).
Slice(arr, start, end) ==
  LET len == Len(arr)
      k == IF start < 0
           THEN (IF len + start < 0 THEN 0 ELSE len + start)
           ELSE (IF start > len THEN len ELSE start)
      final == IF end < 0
               THEN (IF len + end < 0 THEN 0 ELSE len + end)
               ELSE (IF end > len THEN len ELSE end)
  IN IF final > k THEN SubSeq(arr, k + 1, final) ELSE <<>>

\* Math.ceil(a / b) for b # 0
CeilDiv(a, b) == IF b > 0 THEN 0 - ((0 - a) \div b) ELSE 0 - (a \div (0 - b))

\* A category filter that compares the strings as they are.
FilterByCategoryExact(arr, q) ==
  IF Truthy(q.category)
  THEN LET Keep(p) == p.category.v = q.category.v
       IN SelectSeq(arr, Keep)
  ELSE arr

\* `if (req.query.category) filter by category, ignoring case`
FilterByCategory(arr, q) ==
  IF Truthy(q.category)
  THEN LET wanted == ToLowerCase(q.category.v)
           Keep(p) == ToLowerCase(p.category.v) = wanted
       IN SelectSeq(arr, Keep)
  ELSE arr

\* `if (req.query.inStock !== undefined) filter by inStock === "true"`
FilterByInStock(arr, q) ==
  IF q.inStock # Undefined
  THEN LET inStock == (q.inStock = Str(<<"t","r","u","e">>))
           Keep(p) == p.inStock = Bool(inStock)
       IN SelectSeq(arr, Keep)
  ELSE arr

DefaultPage == 1
DefaultLimit == 10

\* Pagination data whose hasNextPage compares with <= in place of <.
PaginationOffByOne(page, limit, filteredCount) ==
  [currentPage |-> page,
   totalPages |-> CeilDiv(filteredCount, limit),
   totalProducts |-> filteredCount,
   hasNextPage |-> page * limit <= filteredCount,
   hasPrevPage |-> page > 1]

Pagination(page, limit, filteredCount) ==
  [currentPage |-> page,
   totalPages |-> CeilDiv(filteredCount, limit),
   totalProducts |-> filteredCount,
   hasNextPage |-> page * limit < filteredCount,
   hasPrevPage |-> page > 1]

GetProducts(r, store, count) ==
  LET filteredProducts == FilterByInStock(FilterByCategory(store, r.query), r.query)
      page == ParseIntOr(r.query.page, DefaultPage)
      limit == ParseIntOr(r.query.limit, DefaultLimit)
      startIndex == (page - 1) * limit
      endIndex == page * limit
  IN Outcome(store, count,
             Response(200, [products |-> Slice(filteredProducts, startIndex, endIndex),
                            pagination |-> Pagination(page, limit,
                                                      Len(filteredProducts))]))

----------------------------------------------------------------------------
(* GET /api/products/stats *)

sConstructor == <<"c","o","n","s","t","r","u","c","t","o","r">>
sObjectSource == <<"f","u","n","c","t","i","o","n"," ","O","b","j","e","c","t","(",")"," ","{"," ","[","n","a","t","i","v","e"," ","c","o","d","e","]"," ","}">>

\* `stats.categories` starts as the object literal {}: it has no property of
\* its own and inherits those of Object.prototype, of which `constructor`
\* (the function Object) is the one a category reaches here.
ObjectPrototype == [k \in {sConstructor} |-> [t |-> "function", v |-> sObjectSource]]

\* obj[key] on an object with the own properties `own`
GetProperty(own, key) ==
  IF key \in DOMAIN own THEN own[key]
  ELSE IF key \in DOMAIN ObjectPrototype THEN ObjectPrototype[key]
  ELSE Undefined

\* `(x || 0) + 1`: a number is incremented; a string, or a function turned
\* into its source text, is concatenated with "1".
OrZeroPlusOne(x) ==
  LET y == IF Truthy(x) THEN x ELSE Num(0) IN
  CASE y.t = "number" -> Num(y.v + 1)
    [] y.t = "string" -> Str(y.v \o <<"1">>)
    [] y.t = "function" -> Str(y.v \o <<"1">>)

\* products.forEach(p => categories[p.category] = (categories[p.category] || 0) + 1)
RECURSIVE CategoryCounts(_, _)
CategoryCounts(arr, own) ==
  IF arr = <<>> THEN own
  ELSE LET c == Head(arr).category.v
           val == OrZeroPlusOne(GetProperty(own, c))
       IN CategoryCounts(Tail(arr),
                         [k \in DOMAIN own \cup {c} |-> IF k = c THEN val ELSE own[k]])

RECURSIVE SumPrices(_)
SumPrices(arr) ==
  IF arr = <<>> THEN 0 ELSE Head(arr).price.v + SumPrices(Tail(arr))

RECURSIVE Gcd(_, _)
Gcd(a, b) == IF b = 0 THEN a ELSE Gcd(b, a % b)

\* a / b for a >= 0 and b > 0, as a fraction in lowest terms.
Divide(a, b) == [num |-> a \div Gcd(a, b), den |-> b \div Gcd(a, b)]

\* Math.min(...prices), Math.max(...prices) of a non-empty array
MinPrice(arr) ==
  CHOOSE m \in {arr[i].price.v : i \in 1..Len(arr)} :
    \A i \in 1..Len(arr) : m <= arr[i].price.v
MaxPrice(arr) ==
  CHOOSE m \in {arr[i].price.v : i \in 1..Len(arr)} :
    \A i \in 1..Len(arr) : m >= arr[i].price.v

\* (p) => p.inStock and (p) => !p.inStock
IsInStock(p) == Truthy(p.inStock)
IsOutOfStock(p) == ~Truthy(p.inStock)

GetStats(r, store, count) ==
  Outcome(store, count,
    Response(200,
      [totalProducts |-> Len(store),
       inStock |-> Len(SelectSeq(store, IsInStock)),
       outOfStock |-> Len(SelectSeq(store, IsOutOfStock)),
       categories |-> CategoryCounts(store, <<>>),
       averagePrice |-> IF Len(store) > 0
                        THEN Divide(SumPrices(store), Len(store))
                        ELSE Divide(0, 1),
       priceRange |-> IF Len(store) > 0
                      THEN [min |-> MinPrice(store), max |-> MaxPrice(store)]
                      ELSE [min |-> 0, max |-> 0]]))

----------------------------------------------------------------------------
(* State. *)

VARIABLES
  products,   \* the array `products`
  uuidCount,  \* how many times uuidv4() has been called
  req,        \* the request handled last
  res,        \* the response sent to it
  deleted,    \* history: the ids a DELETE has removed
  mutations   \* history: how many requests have succeeded in changing the store

vars == <<products, uuidCount, req, res, deleted, mutations>>

NoRequest == Request("NONE", "", Lit(0), Undefined, NoBody, NoQuery)

NoResponse == Response(0, <<>>)

Init ==
  /\ products = SeedProducts
  /\ uuidCount = 0
  /\ req = NoRequest
  /\ res = NoResponse
  /\ deleted = {}
  /\ mutations = 0

\* One request handled to completion with outcome `out`.  Node handles one
\* request at a time: the next is taken up once the last has been answered.
Handle(r, out) ==
  /\ req = NoRequest
  /\ out.res.status >= 400 \/ r.method = "GET" \/ mutations < MaxMutations
  /\ products' = out.products
  /\ uuidCount' = out.uuidCount
  /\ req' = r
  /\ res' = out.res
  /\ deleted' = IF r.method = "DELETE" /\ out.res.status = 200
                THEN deleted \cup {r.id}
                ELSE deleted
  /\ mutations' = IF r.method # "GET" /\ out.res.status < 400
                  THEN mutations + 1
                  ELSE mutations

GetById(id) ==
  LET r == Request("GET", "/api/products/:id", id, Undefined, NoBody, NoQuery)
  IN Handle(r, GetProductById(r, products, uuidCount))

Post(key, body) ==
  LET r == Request("POST", "/api/products", Lit(0), key, body, NoQuery)
  IN Handle(r, PostRoute(r, products, uuidCount))

Put(id, key, body) ==
  LET r == Request("PUT", "/api/products/:id", id, key, body, NoQuery)
  IN Handle(r, PutRoute(r, products, uuidCount))

List(query) ==
  LET r == Request("GET", "/api/products", Lit(0), Undefined, NoBody, query)
  IN Handle(r, GetProducts(r, products, uuidCount))

Stats ==
  LET r == Request("GET", "/api/products/stats", Lit(0), Undefined, NoBody, NoQuery)
  IN Handle(r, GetStats(r, products, uuidCount))

Delete(id, key) ==
  LET r == Request("DELETE", "/api/products/:id", id, key, NoBody, NoQuery)
  IN Handle(r, DeleteRoute(r, products, uuidCount))

----------------------------------------------------------------------------
(* The requests a client sends. *)

sPen == <<"P","e","n">>
sPenPadded == <<" ","P","e","n"," ">>
sInk == <<"i","n","k">>
sInkPadded == <<"\t","i","n","k">>
sToys == <<"t","o","y","s">>
sBlank == <<" ","\t">>
sTrue == <<"t","r","u","e">>
sFalse == <<"f","a","l","s","e">>

\* x-api-key: no header, a wrong value, the empty value, the shared secret.
ApiKeys == {Undefined, Str(sWrongKey), Str(<<>>), Str(sApiKey)}

PlainBody == Body(Str(sPen), Str(sInk), Num(7), Str(sToys), Bool(TRUE))

sKitchenPadded == <<"K","i","t","c","h","e","n","\n">>

\* Bodies validateProduct accepts; one has padded strings, price 0 and
\* inStock false, one a category that names a property of Object.prototype.
ValidBodies ==
  { PlainBody,
    Body(Str(sPenPadded), Str(sInkPadded), Num(0), Str(sKitchenPadded), Bool(FALSE)),
    Body(Str(sPen), Str(sInk), Num(7), Str(sConstructor), Bool(TRUE)) }

\* Bodies validateProduct rejects: one field of PlainBody missing, of the
\* wrong type, empty, blank or negative; the empty object; two bad fields.
InvalidBodies ==
  { [PlainBody EXCEPT !.name = x] :
      x \in {Undefined, Null, Str(<<>>), Str(sBlank), Num(5)} }
  \cup { [PlainBody EXCEPT !.description = x] : x \in {Undefined, Str(sBlank)} }
  \cup { [PlainBody EXCEPT !.price = x] :
           x \in {Undefined, Null, Str(<<"7">>), Num(-1)} }
  \cup { [PlainBody EXCEPT !.category = x] :
           x \in {Undefined, Str(<<" ">>), Bool(TRUE)} }
  \cup { [PlainBody EXCEPT !.inStock = x] :
           x \in {Undefined, Null, Str(sTrue), Num(1)} }
  \cup { NoBody,
         Body(Str(sPen), Str(sInk), Num(-1), Str(sToys), Str(sFalse)) }

Bodies == ValidBodies \cup InvalidBodies

\* Ids in a URL: two seed ids, a string that is never an id, generated ids.
RequestIds ==
  {Lit(3), Lit(6)} \cup {Uuid(k) : k \in 1..MaxMutations}

Queries ==
  [category : {Undefined, Str(<<>>), Str(<<"E","l","e","c","t","r","o","n","i","c","s">>),
               Str(<<"K","I","T","C","H","E","N">>), Str(<<"b","o","o","k","s">>)},
   inStock : {Undefined, Str(sTrue), Str(sFalse), Str(<<>>)},
   page : {Undefined, Str(<<"0">>), Str(<<"1">>), Str(<<"2">>), Str(<<"3">>),
           Str(<<"-","1">>), Str(<<"x">>)},
   limit : {Undefined, Str(<<"0">>), Str(<<"2">>), Str(<<" ","3","x">>),
            Str(<<"-","2">>)}]

\* The response has been sent: req and res of the request are no more.
EndRequest ==
  /\ req # NoRequest
  /\ req' = NoRequest
  /\ res' = NoResponse
  /\ UNCHANGED <<products, uuidCount, deleted, mutations>>

Next ==
  \/ EndRequest
  \/ \E id \in RequestIds : GetById(id)
  \/ \E key \in ApiKeys, body \in Bodies : Post(key, body)
  \/ \E id \in RequestIds, key \in ApiKeys, body \in Bodies : Put(id, key, body)
  \/ \E id \in RequestIds, key \in ApiKeys : Delete(id, key)

\* Every request on the create, update and delete routes, and fetches by id.
Spec == Init /\ [][Next]_vars

\* The requests that change the store: the key is right, the body is valid.
Mutate ==
  \/ \E body \in ValidBodies : Post(Str(sApiKey), body)
  \/ \E id \in RequestIds, body \in ValidBodies : Put(id, Str(sApiKey), body)
  \/ \E id \in RequestIds : Delete(id, Str(sApiKey))

NextList ==
  \/ EndRequest
  \/ Mutate
  \/ \E query \in Queries : List(query)

\* Listings of every store the mutating requests reach.
SpecList == Init /\ [][NextList]_vars

NextStats ==
  \/ EndRequest
  \/ Mutate
  \/ Stats

\* Statistics of every store the mutating requests reach.
SpecStats == Init /\ [][NextStats]_vars

----------------------------------------------------------------------------
(* Properties. *)

MutatingMethods == {"POST", "PUT", "DELETE"}

GetByIdRequest(id) ==
  Request("GET", "/api/products/:id", id, Undefined, NoBody, NoQuery)

\* What GET /api/products/:id answers in the current state.
Fetch(id) == GetProductById(GetByIdRequest(id), products, uuidCount).res

Ids(store) == {store[i].id : i \in 1..Len(store)}

C2_CreateThenFetchTrimmed ==
  (req.method = "POST" /\ res.status = 201) =>
    LET got == Fetch(res.body.product.id) IN
    /\ got.status = 200
    /\ got.body.name = Str(Trim(req.body.name.v))
    /\ got.body.description = Str(Trim(req.body.description.v))
    /\ got.body.category = Str(Trim(req.body.category.v))
    /\ got.body.price = req.body.price
    /\ got.body.inStock = req.body.inStock

\* C2 witness: a product was created from a payload whose name is padded.
C2_Witness ==
  /\ req.method = "POST"
  /\ res.status = 201
  /\ req.body.name = Str(sPenPadded)
  /\ Fetch(res.body.product.id).status = 200

\* C2 as claimed: right after a successful POST, fetching the returned id
\* answers 200 with name, description, price, category and inStock equal to
\* those of the submitted payload.
C2_CreateThenFetchSame ==
  (req.method = "POST" /\ res.status = 201) =>
    LET got == Fetch(res.body.product.id) IN
    /\ got.status = 200
    /\ got.body.name = req.body.name
    /\ got.body.description = req.body.description
    /\ got.body.price = req.body.price
    /\ got.body.category = req.body.category
    /\ got.body.inStock = req.body.inStock

\* C3: once a DELETE has succeeded for an id, GET /api/products/:id answers
\* 404 Not Found for that id in every later state, whatever creates, updates
\* and deletes happen in between.
C3_DeletedStaysNotFound ==
  /\ \A id \in deleted :
       Fetch(id).status = 404 /\ Fetch(id).body.error = "Not Found"
  /\ (req.method = "GET" /\ req.route = "/api/products/:id" /\ req.id \in deleted)
       => res.status = 404

\* C3 witness: an id was deleted, a product was created afterwards, and a
\* fetch of the deleted id was answered 404.
C3_Witness ==
  /\ req.method = "GET"
  /\ req.route = "/api/products/:id"
  /\ req.id \in deleted
  /\ uuidCount > 0
  /\ req.id = Lit(3)
  /\ res.status = 404

\* C4: a PUT with the right key and a valid body for an id that is not in the
\* store is answered 404 Not Found and leaves the store exactly as it was.
C4_UpdateOfUnknownId ==
  [][(/\ req'.method = "PUT"
      /\ authMiddleware(req') = NoError
      /\ validateProduct(req') = NoError
      /\ req'.id \notin Ids(products))
       => (/\ res'.status = 404
           /\ res'.body.error = "Not Found"
           /\ products' = products)]_vars

\* C4 witness: such a PUT was made for an id that was deleted before.
C4_Witness ==
  /\ req.method = "PUT"
  /\ authMiddleware(req) = NoError
  /\ validateProduct(req) = NoError
  /\ req.id \in deleted
  /\ res.status = 404

NoDuplicateIds(store) ==
  \A i, j \in 1..Len(store) : store[i].id = store[j].id => i = j

\* C5: no two products of the store ever have the same id; a create gives
\* its product an id that no product of the store has, and an update leaves
\* every id where it was.
C5_IdsAreUnique ==
  [][/\ NoDuplicateIds(products)
     /\ NoDuplicateIds(products')
     /\ (req'.method = "POST" /\ res'.status = 201)
          => (/\ res'.body.product.id \notin Ids(products)
              /\ products' = Append(products, res'.body.product))
     /\ (req'.method = "PUT" /\ res'.status = 200)
          => (/\ Len(products') = Len(products)
              /\ \A i \in 1..Len(products) : products'[i].id = products[i].id)
    ]_vars

\* C5 witness: two created products stand beside the five of the seed.
C5_Witness ==
  /\ Len(products) = Len(SeedProducts) + 2
  /\ uuidCount = 2
  /\ req.method = "POST"
  /\ res.status = 201

IsListRequest == req.method = "GET" /\ req.route = "/api/products"

\* The filtered list of the request handled last.
Filtered == FilterByInStock(FilterByCategory(products, req.query), req.query)

\* The elements of arr whose 0-based index i has lo <= i < hi, in order.
Window(arr, lo, hi) ==
  LET idx == {i \in 1..Len(arr) : lo <= i - 1 /\ i - 1 < hi} IN
  [k \in 1..Cardinality(idx) |->
     arr[(CHOOSE m \in idx : \A i \in idx : m <= i) + k - 1]]

\* ceil(a / b) for a >= 0 and b > 0: the least n with n * b >= a.
Ceiling(a, b) == CHOOSE n \in 0..a : n * b >= a /\ \A m \in 0..(n - 1) : m * b < a

\* The integer a query parameter gives, and what stands for an absent one.
GivenInteger(x, absent) == IF x = Undefined THEN absent ELSE ParseInt(x).n
GivesInteger(x) == x = Undefined \/ ~ParseInt(x).nan

\* The same, with the default also standing for zero and for text that is no
\* number.
GivenOrDefault(x, dflt) ==
  IF x = Undefined \/ ParseInt(x).nan \/ ParseInt(x).n = 0
  THEN dflt
  ELSE ParseInt(x).n

\* C6 as amended: when page and limit are positive integers (1 and 10 when
\* the parameter is absent, zero or no number), the returned products are the
\* sub-range [(page-1)*limit, page*limit) of the filtered list in store
\* order, totalPages is ceil(filteredCount/limit), hasNextPage says that a
\* filtered item lies beyond the window, and hasPrevPage says that page > 1.
C6_PaginationWindow ==
  LET page == GivenOrDefault(req.query.page, 1)
      limit == GivenOrDefault(req.query.limit, 10)
      body == res.body
  IN (IsListRequest /\ page >= 1 /\ limit >= 1) =>
       /\ res.status = 200
       /\ body.products = Window(Filtered, (page - 1) * limit, page * limit)
       /\ body.pagination.currentPage = page
       /\ body.pagination.totalProducts = Len(Filtered)
       /\ body.pagination.totalPages = Ceiling(Len(Filtered), limit)
       /\ body.pagination.hasNextPage
            <=> (\E i \in 1..Len(Filtered) : i - 1 >= page * limit)
       /\ body.pagination.hasPrevPage <=> (page > 1)

\* C6 witness: limit=2 and page=2 on the five products of the seed return the
\* third and the fourth, with a next page for the fifth.
C6_Witness ==
  /\ IsListRequest
  /\ products = SeedProducts
  /\ req.query = [category |-> Undefined, inStock |-> Undefined,
                  page |-> Str(<<"2">>), limit |-> Str(<<"2">>)]
  /\ res.body.products = <<SeedProducts[3], SeedProducts[4]>>
  /\ res.body.pagination.hasNextPage
  /\ res.body.pagination.totalPages = 3

\* C6 as claimed: with page and limit the integers given in the query (1 and
\* 10 when absent), the returned products are the sub-range
\* [(page-1)*limit, page*limit) of the filtered list, totalPages is
\* ceil(filteredCount/limit), hasNextPage says that a filtered item lies
\* beyond the window and hasPrevPage that one lies before it.
C6_PaginationAsClaimed ==
  LET page == GivenInteger(req.query.page, 1)
      limit == GivenInteger(req.query.limit, 10)
      body == res.body
  IN (IsListRequest /\ GivesInteger(req.query.page) /\ GivesInteger(req.query.limit)) =>
       /\ body.products = Window(Filtered, (page - 1) * limit, page * limit)
       /\ limit > 0 => body.pagination.totalPages = Ceiling(Len(Filtered), limit)
       /\ body.pagination.hasNextPage
            <=> (\E i \in 1..Len(Filtered) : i - 1 >= page * limit)
       /\ body.pagination.hasPrevPage
            <=> (\E i \in 1..Len(Filtered) : i - 1 < (page - 1) * limit)

\* Two strings are equal ignoring case.
SameIgnoringCase(a, b) ==
  /\ Len(a) = Len(b)
  /\ \A i \in 1..Len(a) : ToLowerChar(a[i]) = ToLowerChar(b[i])

InCategory(p, category) == SameIgnoringCase(p.category.v, category.v)

\* What the request handled last is answered without its inStock parameter.
CategoryOnly ==
  GetProducts([req EXCEPT !.query.inStock = Undefined], products, uuidCount).res.body

\* What C7 says of a listing with the category parameter `category`.
CategoryListing(category) ==
  LET body == res.body
      flag == Bool(req.query.inStock = Str(sTrue))
  IN /\ \A i \in 1..Len(body.products) : InCategory(body.products[i], category)
     /\ req.query.inStock = Undefined =>
          body.pagination.totalProducts =
            Cardinality({i \in 1..Len(products) : InCategory(products[i], category)})
     /\ req.query.inStock \in {Str(sTrue), Str(sFalse)} =>
          /\ \A i \in 1..Len(body.products) : body.products[i].inStock = flag
          /\ body.pagination.totalProducts =
               Cardinality({i \in 1..Len(products) :
                              /\ InCategory(products[i], category)
                              /\ products[i].inStock = flag})
          /\ body.pagination.totalProducts <= CategoryOnly.pagination.totalProducts
          /\ (req.query.page = Undefined /\ req.query.limit = Undefined
              /\ Len(products) <= DefaultLimit) =>
               LET Flagged(p) == p.inStock = flag
               IN body.products = SelectSeq(CategoryOnly.products, Flagged)

\* C7 as amended: a listing with a non-empty category parameter returns only
\* products of that category, ignoring case, and counts every one of them;
\* with inStock 'true' or 'false' added it returns exactly the products of
\* the category-only listing whose inStock flag is the parsed value.
C7_CategoryFilter ==
  (IsListRequest /\ req.query.category # Undefined /\ req.query.category.v # <<>>)
    => CategoryListing(req.query.category)

\* C7 witness: category=KITCHEN with inStock=false returned the coffee maker
\* of the seed and a created product of category Kitchen.
C7_Witness ==
  /\ IsListRequest
  /\ req.query.category = Str(<<"K","I","T","C","H","E","N">>)
  /\ req.query.inStock = Str(sFalse)
  /\ req.query.page = Undefined
  /\ req.query.limit = Undefined
  /\ Len(res.body.products) = 2
  /\ res.body.products[1].category # res.body.products[2].category

\* C7 as claimed: the same of every listing with a category parameter.
C7_CategoryFilterAsClaimed ==
  (IsListRequest /\ req.query.category # Undefined)
    => CategoryListing(req.query.category)

IsStatsRequest == req.method = "GET" /\ req.route = "/api/products/stats"

RECURSIVE SumOver(_, _)
SumOver(f, keys) ==
  IF keys = {} THEN 0
  ELSE LET k == CHOOSE x \in keys : TRUE IN f[k].v + SumOver(f, keys \ {k})

\* C8: the statistics describe the store: totalProducts is its length,
\* inStock and outOfStock count the flags and sum to it, the category counts
\* sum to it, averagePrice is the sum of the prices over the count (0 when
\* empty), priceRange holds the least and the greatest price; the seed gives
\* 5, 4, 1, 510, 50 and 1200.
C8_StatsDescribeStore ==
  IsStatsRequest =>
    LET s == res.body
        n == Len(products)
        prices == {products[i].price.v : i \in 1..n}
    IN /\ s.totalProducts = n
       /\ s.inStock = Cardinality({i \in 1..n : products[i].inStock = Bool(TRUE)})
       /\ s.outOfStock = Cardinality({i \in 1..n : products[i].inStock = Bool(FALSE)})
       /\ s.inStock + s.outOfStock = n
       /\ \A k \in DOMAIN s.categories : s.categories[k].t = "number"
       /\ (\A k \in DOMAIN s.categories : s.categories[k].t = "number")
            => SumOver(s.categories, DOMAIN s.categories) = n
       /\ s.averagePrice.num * n = SumPrices(products) * s.averagePrice.den
       /\ n = 0 => s.averagePrice.num = 0
       /\ n > 0 => /\ s.priceRange.min \in prices
                   /\ s.priceRange.max \in prices
                   /\ \A x \in prices : s.priceRange.min <= x /\ x <= s.priceRange.max
       /\ products = SeedProducts =>
            /\ s.totalProducts = 5 /\ s.inStock = 4 /\ s.outOfStock = 1
            /\ s.averagePrice = [num |-> 510, den |-> 1]
            /\ s.priceRange = [min |-> 50, max |-> 1200]

\* C9: on POST and PUT the key is checked before the body and both before
\* the store: a wrong or missing key gets 401 even with an invalid body, a
\* right key with an invalid body gets 400 even when the id of a PUT is not
\* in the store, and the store is unchanged either way.
C9_AuthThenValidatorThenStore ==
  [][(req'.method \in {"POST", "PUT"}) =>
       /\ req'.apiKey # Str(sApiKey)
            => (res'.status = 401 /\ products' = products)
       /\ (req'.apiKey = Str(sApiKey) /\ validateProduct(req') # NoError)
            => (res'.status = 400 /\ products' = products)]_vars

\* C9 witness: a PUT with the right key, an invalid body and an id that is
\* not in the store was answered 400.
C9_Witness ==
  /\ req.method = "PUT"
  /\ req.apiKey = Str(sApiKey)
  /\ validateProduct(req) # NoError
  /\ req.id \notin Ids(products)
  /\ res.status = 400

\* The data model of a product.
WellFormed(p) ==
  /\ TypeOf(p.name) = "string" /\ Len(p.name.v) > 0
  /\ TypeOf(p.description) = "string" /\ Len(p.description.v) > 0
  /\ TypeOf(p.category) = "string" /\ Len(p.category.v) > 0
  /\ TypeOf(p.price) = "number" /\ p.price.v >= 0
  /\ TypeOf(p.inStock) = "boolean"

AllWellFormed(store) == \A i \in 1..Len(store) : WellFormed(store[i])

\* What the validator of the source asks of a body, written out from the
\* data model: three non-blank strings, a number >= 0, a boolean.
Acceptable(b) ==
  /\ TypeOf(b.name) = "string" /\ \E i \in 1..Len(b.name.v) : b.name.v[i] \notin WhiteSpace
  /\ TypeOf(b.description) = "string"
  /\ \E i \in 1..Len(b.description.v) : b.description.v[i] \notin WhiteSpace
  /\ TypeOf(b.category) = "string"
  /\ \E i \in 1..Len(b.category.v) : b.category.v[i] \notin WhiteSpace
  /\ TypeOf(b.price) = "number" /\ b.price.v >= 0
  /\ TypeOf(b.inStock) = "boolean"

\* C10: every product of every reachable store has non-empty strings as
\* name, description and category, a number >= 0 as price and a boolean as
\* inStock; a request whose body the validator rejects changes no product.
C10_StoreKeepsDataModel ==
  [][/\ AllWellFormed(products)
     /\ AllWellFormed(products')
     /\ (req'.method \in {"POST", "PUT"} /\ ~Acceptable(req'.body))
          => products' = products]_vars

\* C10 witness: a product created from a padded payload with price 0 is in
\* the store, and a body with a negative price has just been rejected.
C10_Witness ==
  /\ \E i \in 1..Len(products) : products[i].price = Num(0)
  /\ req.method = "POST"
  /\ req.apiKey = Str(sApiKey)
  /\ req.body.price = Num(-1)
  /\ res.status = 400

\* The place of an id in the order of insertion: the seed's products in the
\* order of the array literal, then the created ones in the order of their
\* uuidv4() calls.
InsertionRank(id) == IF id.kind = "lit" THEN id.n ELSE Len(SeedProducts) + id.n

\* The ids inserted so far: the seed's and those of the creates.
InsertedIds(count) ==
  Ids(SeedProducts) \cup {Uuid(k) : k \in 1..count}

\* The store holds the inserted products that were not deleted, in the order
\* of their insertion.
InInsertionOrder(store, count, gone) ==
  /\ Ids(store) = InsertedIds(count) \ gone
  /\ \A i, j \in 1..Len(store) :
       i < j => InsertionRank(store[i].id) < InsertionRank(store[j].id)

\* What a successful PUT leaves alone: the length of the store, the id and
\* the place of the addressed product, every other product.
UpdateFrame(before, after, id) ==
  /\ Len(after) = Len(before)
  /\ \A j \in 1..Len(before) :
       /\ after[j].id = before[j].id
       /\ before[j].id # id => after[j] = before[j]
  /\ \E j \in 1..Len(before) : before[j].id = id

\* The product with the given id.
ProductWithId(store, id) == store[CHOOSE j \in 1..Len(store) : store[j].id = id]

\* C11 as amended: a successful PUT gives the addressed product the
\* payload's price and inStock and its name, description and category with
\* leading and trailing white space removed, and changes nothing else: the
\* product keeps its id and its place, the number of products is unchanged,
\* every other product keeps its fields and its place; the store is always
\* in insertion order with the deleted products removed.
C11_UpdateReplacesInPlace ==
  [][/\ InInsertionOrder(products, uuidCount, deleted)
     /\ InInsertionOrder(products', uuidCount', deleted')
     /\ (req'.method = "PUT" /\ res'.status = 200) =>
          /\ UpdateFrame(products, products', req'.id)
          /\ LET p == ProductWithId(products', req'.id) IN
             /\ p.name = Str(Trim(req'.body.name.v))
             /\ p.description = Str(Trim(req'.body.description.v))
             /\ p.category = Str(Trim(req'.body.category.v))
             /\ p.price = req'.body.price
             /\ p.inStock = req'.body.inStock
             /\ res'.body.product = p]_vars

\* C11 witness: after a create, the third product of the seed was updated
\* from a padded payload; it is still third, with the trimmed name, and the
\* created product is still behind it.
C11_Witness ==
  /\ req.method = "PUT"
  /\ res.status = 200
  /\ req.id = Lit(3)
  /\ req.body.name = Str(sPenPadded)
  /\ uuidCount = 1
  /\ Len(products) = Len(SeedProducts) + 1
  /\ products[3].id = Lit(3)
  /\ products[3].name = Str(sPen)
  /\ products[3].price = Num(0)

\* C11 as claimed: a successful PUT gives the addressed product the
\* payload's name, description, price, category and inStock and changes
\* nothing else; the store is always in insertion order with the deleted
\* products removed.
C11_UpdateReplacesWithPayload ==
  [][/\ InInsertionOrder(products, uuidCount, deleted)
     /\ InInsertionOrder(products', uuidCount', deleted')
     /\ (req'.method = "PUT" /\ res'.status = 200) =>
          /\ UpdateFrame(products, products', req'.id)
          /\ LET p == ProductWithId(products', req'.id) IN
             /\ p.name = req'.body.name
             /\ p.description = req'.body.description
             /\ p.category = req'.body.category
             /\ p.price = req'.body.price
             /\ p.inStock = req'.body.inStock]_vars

====
